---- MODULE Spec2Model ----
(***************************************************************************)
(* Model of the two scripts of the repository:                             *)
(*   cosmic_background_analysis.py  fetch_cobe_data, get_local_backup_data,*)
(*                                  planck_law, run_pipeline               *)
(*   random_walk_vectorized.py      simulate_random_walk                   *)
(*                                                                         *)
(* Three specifications share the module:                                  *)
(*   Spec        the pipeline run_pipeline() with its ingestion            *)
(*   SpecPlanck  planck_law applied to bounded inputs                      *)
(*   SpecWalk    simulate_random_walk applied to bounded inputs            *)
(***************************************************************************)
EXTENDS Integers, Sequences, FiniteSets, TLC

VARIABLES
    \* ---- run_pipeline / fetch_cobe_data ----
    pc,          \* position of the script
    runs,        \* number of invocations of run_pipeline started so far
    response,    \* the requests.Response of the current invocation
    exc,         \* the exception in flight ("none" when there is none)
    df,          \* the table fetch_cobe_data returned
    path,        \* which return statement of fetch_cobe_data produced df
    nu_data, I_data, sigma_data,   \* the arrays of run_pipeline
    fitCalls,    \* the arguments of every curve_fit call of this invocation
    fitOutcome,  \* how curve_fit ended
    popt, pcov,  \* what curve_fit returned
    printed,     \* the result lines printed by this invocation
    imageWrites, \* number of plt.savefig calls of this invocation
    reqLog,      \* per invocation of fetch_cobe_data: requests.get calls made
    fallbackLog, \* every table returned by the except branch so far
    \* ---- planck_law ----
    k_pc, k_nu, k_T, k_A, k_den, k_out,
    \* ---- simulate_random_walk ----
    w_pc, n_steps, indices, x, y

pipeVars == <<pc, runs, response, exc, df, path, nu_data, I_data, sigma_data,
              fitCalls, fitOutcome, popt, pcov, printed, imageWrites,
              reqLog, fallbackLog>>
planckVars == <<k_pc, k_nu, k_T, k_A, k_den, k_out>>
walkVars == <<w_pc, n_steps, indices, x, y>>
vars == <<pipeVars, planckVars, walkVars>>

(***************************************************************************)
(* Bounds of the model.                                                    *)
(***************************************************************************)
MaxRuns == 2      \* invocations of run_pipeline per behaviour
MaxLines == 3     \* lines of a response body
MaxArr == 2       \* length of the array handed to planck_law
MaxSteps == 3     \* n_steps of simulate_random_walk


(***************************************************************************)
(* Text and numbers.  A field of a text line is a decimal literal          *)
(* <<m, d>>: the digits m with d of them after the point ("2.27" is        *)
(* <<227, 2>>).  A parsed number is a rational <<num, den>>.               *)
(***************************************************************************)
RECURSIVE Pow10(_)
Pow10(d) == IF d = 0 THEN 1 ELSE 10 * Pow10(d - 1)

Tok(m, d) == <<m, d>>

\* pandas' conversion of a numeric field to float64
ToFloat(tok) == <<tok[1], Pow10(tok[2])>>

\* equality of two rationals
REq(a, b) == a[1] * b[2] = b[1] * a[2]

\* numpy's array / scalar, elementwise, for a positive integer scalar
RDiv(a, n) == <<a[1], a[2] * n>>

CommentLine == [kind |-> "comment", fields |-> <<>>]
BlankLine == [kind |-> "blank", fields |-> <<>>]
DataLine(f) == [kind |-> "data", fields |-> f]

(***************************************************************************)
(* pd.read_csv(io.StringIO(text), sep='\s+', comment='#', header=None,     *)
(* usecols=..., names=['nu','I','sigma']): lines starting with # and blank *)
(* lines are skipped, the remaining lines are the rows, in order; the      *)
(* columns named by usecols (1-based here) become nu, I and sigma.  A text *)
(* with no row raises EmptyDataError.                                      *)
(***************************************************************************)
IsRow(line) == line.kind = "data"

\* header=None left out: the first row is taken for the column names
RowsHeaderConsumed(text) ==
    IF SelectSeq(text, IsRow) = <<>> THEN <<>> ELSE Tail(SelectSeq(text, IsRow))

Rows(text) == SelectSeq(text, IsRow)

ReadCsvRaises(text) == Rows(text) = <<>>

ReadCsv(text, usecols) ==
    [i \in 1..Len(Rows(text)) |->
        [nu    |-> ToFloat(Rows(text)[i].fields[usecols[1]]),
         I     |-> ToFloat(Rows(text)[i].fields[usecols[2]]),
         sigma |-> ToFloat(Rows(text)[i].fields[usecols[3]])]]

\* usecols=[0, 1, 2]: the residual column taken for the uncertainty
RemoteUsecolsAdjacent == <<1, 2, 3>>

\* usecols=[0, 1, 3] of fetch_cobe_data, 1-based
RemoteUsecols == <<1, 2, 4>>

\* get_local_backup_data passes no usecols: the three columns of raw_data
BackupUsecols == <<1, 2, 3>>

(***************************************************************************)
(* raw_data of get_local_backup_data: nu * 100, I * 1000, sigma.           *)
(***************************************************************************)
BackupRows ==
    << <<227, 200723, 14>>, <<272, 249508, 19>>, <<318, 293024, 25>>,
       <<363, 327770, 23>>, <<408, 354081, 22>>, <<454, 372079, 21>>,
       <<499, 381493, 18>>, <<545, 383478, 18>>, <<590, 378901, 16>>,
       <<635, 368833, 14>>, <<681, 354063, 13>>, <<726, 336278, 12>>,
       <<771, 316076, 11>>, <<817, 293924, 10>>, <<862, 271432, 11>>,
       <<908, 248239, 12>>, <<953, 225940, 14>>, <<998, 204327, 16>>,
       <<1044, 183262, 18>>, <<1089, 163830, 22>>, <<1134, 145750, 22>>,
       <<1180, 128835, 23>>, <<1225, 113568, 23>>, <<1271, 99451, 23>>,
       <<1316, 87036, 22>>, <<1361, 75876, 21>>, <<1407, 65766, 20>>,
       <<1452, 57008, 19>>, <<1497, 49223, 19>>, <<1543, 42267, 19>>,
       <<1588, 36352, 21>>, <<1634, 31062, 23>>, <<1679, 26580, 26>>,
       <<1724, 22644, 28>>, <<1770, 19255, 30>>, <<1815, 16391, 32>>,
       <<1861, 13811, 33>>, <<1906, 11716, 35>>, <<1951, 9921, 41>>,
       <<1997, 8364, 55>>, <<2042, 7087, 88>>, <<2087, 5801, 155>>,
       <<2133, 4523, 282>> >>

\* the text between the triple quotes: a blank first line, one line per
\* observation, a last line of blanks
raw_data ==
    <<BlankLine>>
    \o [i \in 1..Len(BackupRows) |->
           DataLine(<<Tok(BackupRows[i][1], 2), Tok(BackupRows[i][2], 3),
                      Tok(BackupRows[i][3], 0)>>)]
    \o <<BlankLine>>

get_local_backup_data == ReadCsv(raw_data, BackupUsecols)

(***************************************************************************)
(* What the network can answer.  A body in the five-column layout: freq,   *)
(* intensity, residual, uncertainty, galaxy model.                         *)
(***************************************************************************)
RemoteRowA == <<Tok(227, 2), Tok(200723, 3), Tok(5, 0), Tok(14, 0), Tok(4, 0)>>
RemoteRowB == <<Tok(272, 2), Tok(249508, 3), Tok(9, 0), Tok(19, 0), Tok(3, 0)>>

LineSet == {CommentLine, DataLine(RemoteRowA), DataLine(RemoteRowB)}

Bodies == UNION {[1..n -> LineSet] : n \in 0..MaxLines}

StatusCodes == {200, 404, 503}

NoResponse == [status_code |-> 0, text |-> <<>>]

\* what requests.get raises: no connection, or no answer within timeout=10
GetErrors == {"requests.ConnectionError", "requests.Timeout"}

\* the classes caught by "except Exception"
ExceptionSubclasses ==
    {"requests.ConnectionError", "requests.Timeout", "ConnectionError",
     "EmptyDataError", "RuntimeError"}

\* "except ConnectionError": the handler of a narrower clause
HandlerCatchesNarrow(e) == e = "ConnectionError"

HandlerCatches(e) == e \in ExceptionSubclasses

\* a handler that tries the network again
HandlerRetries == "get"

\* where fetch_cobe_data goes once its handler has printed the two messages
HandlerNext == "fallback"


(***************************************************************************)
(* The solver.  scipy's curve_fit either raises (RuntimeError: optimal     *)
(* parameters not found), or returns popt with a finite covariance, or     *)
(* returns popt with a covariance filled with inf (it could not be         *)
(* estimated).  Which one is the solver's business: a choice here.         *)
(***************************************************************************)
SolverOutcomes == {"converged", "singular", "raise"}

Fin(v) == [k |-> "fin", v |-> v]
Inf == [k |-> "inf", v |-> 0]

\* candidate best-fit (T, A) and covariance diagonals
Popts == {<<Tok(2725, 3), Tok(1, 15)>>, <<Tok(3, 0), Tok(2, 15)>>}
FiniteCovs == {<<Fin(4), Fin(9)>>}
SingularCov == <<Inf, Inf>>

\* p0 = [3, 1e-15]
p0 == <<Tok(3, 0), Tok(1, 15)>>

\* np.sqrt on a variance: sqrt(inf) is inf
Sqrt(a) ==
    IF a.k = "inf" THEN Inf
    ELSE Fin(CHOOSE r \in 0..a.v : r * r <= a.v /\ (r + 1) * (r + 1) > a.v)

\* a try/except around curve_fit that carries on
AfterFitRecovering(outcome) == "report"

\* a check of pcov that stops the run when it is not finite
AfterFitStrict(outcome) ==
    IF outcome \in {"raise", "singular"} THEN "error" ELSE "report"

\* run_pipeline has no try around curve_fit: an exception ends the run,
\* anything returned goes on to the report
AfterFit(outcome) == IF outcome = "raise" THEN "error" ELSE "report"

\* the figure saved a second time
SaveFigTwice(n) == n + 2

\* plt.savefig('cobe_analysis_result.png') is called once
SaveFig(n) == n + 1

\* the division left out
RescaleMissing(sigma) == sigma

\* sigma_data = df['sigma'].values / 1000.0
Rescale(sigma) == RDiv(sigma, 1000)

NoFit == "none"

(***************************************************************************)
(* The pipeline.                                                           *)
(***************************************************************************)
PipeInit ==
    /\ pc = "idle"
    /\ runs = 0
    /\ response = NoResponse
    /\ exc = "none"
    /\ df = <<>>
    /\ path = "none"
    /\ nu_data = <<>>
    /\ I_data = <<>>
    /\ sigma_data = <<>>
    /\ fitCalls = <<>>
    /\ fitOutcome = NoFit
    /\ popt = <<>>
    /\ pcov = <<>>
    /\ printed = <<>>
    /\ imageWrites = 0
    /\ reqLog = <<>>
    /\ fallbackLog = {}

\* python cosmic_background_analysis.py: run_pipeline() is entered and calls
\* fetch_cobe_data() (line 140).  Every name of the previous run is gone.
StartRun ==
    /\ pc \in {"idle", "done", "error"}
    /\ runs < MaxRuns
    /\ runs' = runs + 1
    /\ pc' = "get"
    /\ response' = NoResponse
    /\ exc' = "none"
    /\ df' = <<>>
    /\ path' = "none"
    /\ nu_data' = <<>>
    /\ I_data' = <<>>
    /\ sigma_data' = <<>>
    /\ fitCalls' = <<>>
    /\ fitOutcome' = NoFit
    /\ popt' = <<>>
    /\ pcov' = <<>>
    /\ printed' = <<>>
    /\ imageWrites' = 0
    /\ reqLog' = Append(reqLog, 0)
    /\ UNCHANGED fallbackLog

\* response = requests.get(NASA_URL, headers=headers, timeout=10)
HttpGet ==
    /\ pc = "get"
    /\ reqLog' = [reqLog EXCEPT ![Len(reqLog)] = @ + 1]
    /\ \/ \E e \in GetErrors :
            /\ exc' = e
            /\ pc' = "except"
            /\ UNCHANGED response
       \/ \E st \in StatusCodes, body \in Bodies :
            /\ response' = [status_code |-> st, text |-> body]
            /\ pc' = "status"
            /\ UNCHANGED exc
    /\ UNCHANGED <<runs, df, path, nu_data, I_data, sigma_data, fitCalls,
                   fitOutcome, popt, pcov, printed, imageWrites, fallbackLog>>

\* if response.status_code == 200: ... else: raise ConnectionError(...)
CheckStatus ==
    /\ pc = "status"
    /\ IF response.status_code = 200
       THEN pc' = "parse" /\ UNCHANGED exc
       ELSE pc' = "except" /\ exc' = "ConnectionError"
    /\ UNCHANGED <<runs, response, df, path, nu_data, I_data, sigma_data,
                   fitCalls, fitOutcome, popt, pcov, printed, imageWrites,
                   reqLog, fallbackLog>>

\* df = pd.read_csv(...); return df
ParseResponse ==
    /\ pc = "parse"
    /\ IF ReadCsvRaises(response.text)
       THEN /\ pc' = "except"
            /\ exc' = "EmptyDataError"
            /\ UNCHANGED <<df, path>>
       ELSE /\ df' = ReadCsv(response.text, RemoteUsecols)
            /\ path' = "remote"
            /\ pc' = "ingested"
            /\ UNCHANGED exc
    /\ UNCHANGED <<runs, response, nu_data, I_data, sigma_data, fitCalls,
                   fitOutcome, popt, pcov, printed, imageWrites, reqLog,
                   fallbackLog>>

\* except Exception as e: the two messages.  An exception the clause does
\* not name leaves fetch_cobe_data and, run_pipeline catching nothing, ends
\* the run.
Except ==
    /\ pc = "except"
    /\ IF HandlerCatches(exc)
       THEN pc' = HandlerNext /\ exc' = "none"
       ELSE pc' = "error" /\ UNCHANGED exc
    /\ UNCHANGED <<runs, response, df, path, nu_data, I_data, sigma_data,
                   fitCalls, fitOutcome, popt, pcov, printed, imageWrites,
                   reqLog, fallbackLog>>

\* return get_local_backup_data()
Fallback ==
    /\ pc = "fallback"
    /\ df' = get_local_backup_data
    /\ path' = "fallback"
    /\ fallbackLog' = fallbackLog \cup {df'}
    /\ pc' = "ingested"
    /\ UNCHANGED <<runs, response, exc, nu_data, I_data, sigma_data,
                   fitCalls, fitOutcome, popt, pcov, printed, imageWrites,
                   reqLog>>

\* lines 142-150: the three arrays of the fit
Extract ==
    /\ pc = "ingested"
    /\ nu_data' = [i \in 1..Len(df) |-> df[i].nu]
    /\ I_data' = [i \in 1..Len(df) |-> df[i].I]
    /\ sigma_data' = [i \in 1..Len(df) |-> Rescale(df[i].sigma)]
    /\ pc' = "fit"
    /\ UNCHANGED <<runs, response, exc, df, path, fitCalls, fitOutcome, popt,
                   pcov, printed, imageWrites, reqLog, fallbackLog>>

\* popt, pcov = curve_fit(planck_law, nu_data, I_data, p0=p0,
\*                        sigma=sigma_data, absolute_sigma=True)
CurveFit ==
    /\ pc = "fit"
    /\ fitCalls' = Append(fitCalls,
                          [f |-> "planck_law", xdata |-> nu_data,
                           ydata |-> I_data, p0 |-> p0, sigma |-> sigma_data,
                           absolute_sigma |-> TRUE])
    /\ \E outcome \in SolverOutcomes :
          /\ fitOutcome' = outcome
          /\ pc' = AfterFit(outcome)
          /\ IF outcome = "raise"
             THEN exc' = "RuntimeError" /\ UNCHANGED <<popt, pcov>>
             ELSE /\ popt' \in Popts
                  /\ pcov' \in (IF outcome = "singular" THEN {SingularCov}
                                ELSE FiniteCovs)
                  /\ UNCHANGED exc
    /\ UNCHANGED <<runs, response, df, path, nu_data, I_data, sigma_data,
                   printed, imageWrites, reqLog, fallbackLog>>

\* T_fit, A_fit = popt; perr = np.sqrt(np.diag(pcov)); the printed result
Report ==
    /\ pc = "report"
    /\ printed' = Append(printed,
                         [T_fit |-> popt[1], perr |-> Sqrt(pcov[1])])
    /\ pc' = "plot"
    /\ UNCHANGED <<runs, response, exc, df, path, nu_data, I_data, sigma_data,
                   fitCalls, fitOutcome, popt, pcov, imageWrites, reqLog,
                   fallbackLog>>

\* lines 175-199: the figure and plt.savefig
Plot ==
    /\ pc = "plot"
    /\ imageWrites' = SaveFig(imageWrites)
    /\ pc' = "done"
    /\ UNCHANGED <<runs, response, exc, df, path, nu_data, I_data, sigma_data,
                   fitCalls, fitOutcome, popt, pcov, printed, reqLog,
                   fallbackLog>>


(***************************************************************************)
(* float64 arithmetic of planck_law, in decimal with four significant      *)
(* digits: a finite number is m * 10^e with 1000 <= |m| <= 9999 (or m = 0),*)
(* a result above the largest double (1.797e308) is inf, one below the     *)
(* smallest (4.9e-324) is zero, and the IEEE rules give inf and nan their  *)
(* arithmetic.  numpy does not raise on any of these: it warns.  Four       *)
(* digits give the first digits of a small result and the magnitude of a   *)
(* large one; zero, inf and nan arise where they do in float64.            *)
(***************************************************************************)
Abs(n) == IF n < 0 THEN -n ELSE n
Sgn(n) == IF n < 0 THEN -1 ELSE 1

Zero == [k |-> "fin", m |-> 0, e |-> 0]
FInf(sign) == [k |-> "inf", m |-> sign, e |-> 0]
NaN == [k |-> "nan", m |-> 0, e |-> 0]

RECURSIVE Norm(_, _)
Norm(m, e) ==
    IF m = 0 THEN Zero
    ELSE IF Abs(m) >= 10000 THEN Norm(Sgn(m) * (Abs(m) \div 10), e + 1)
    ELSE IF Abs(m) < 1000 THEN Norm(m * 10, e - 1)
    ELSE IF e > 305 \/ (e = 305 /\ Abs(m) > 1797) THEN FInf(Sgn(m))
    ELSE IF e < -327 THEN Zero
    ELSE [k |-> "fin", m |-> m, e |-> e]

FromInt(n) == Norm(n, 0)

IsZero(a) == a.k = "fin" /\ a.m = 0
IsFinite(a) == a.k = "fin"

FNeg(a) == [a EXCEPT !.m = -a.m]

FMul(a, b) ==
    IF a.k = "nan" \/ b.k = "nan" THEN NaN
    ELSE IF a.k = "inf" \/ b.k = "inf"
         THEN IF IsZero(a) \/ IsZero(b) THEN NaN
              ELSE FInf(Sgn(a.m) * Sgn(b.m))
    ELSE Norm(a.m * b.m, a.e + b.e)

FDiv(a, b) ==
    IF a.k = "nan" \/ b.k = "nan" THEN NaN
    ELSE IF a.k = "inf"
         THEN IF b.k = "inf" THEN NaN ELSE FInf(Sgn(a.m) * Sgn(b.m))
    ELSE IF b.k = "inf" THEN Zero
    ELSE IF IsZero(b)
         THEN IF IsZero(a) THEN NaN ELSE FInf(Sgn(a.m))
    ELSE Norm(Sgn(a.m) * Sgn(b.m) * ((Abs(a.m) * 10000) \div Abs(b.m)),
              a.e - b.e - 4)

\* the sum of two finite numbers, the exponent of a not below that of b
AddAligned(a, b) ==
    IF a.e - b.e > 8 THEN a
    ELSE Norm(a.m * 10000
                + Sgn(b.m) * ((Abs(b.m) * 10000) \div Pow10(a.e - b.e)),
              a.e - 4)

FAdd(a, b) ==
    IF a.k = "nan" \/ b.k = "nan" THEN NaN
    ELSE IF a.k = "inf"
         THEN IF b.k = "inf" /\ a.m # b.m THEN NaN ELSE a
    ELSE IF b.k = "inf" THEN b
    ELSE IF IsZero(a) THEN b
    ELSE IF IsZero(b) THEN a
    ELSE IF a.e >= b.e THEN AddAligned(a, b) ELSE AddAligned(b, a)

FSub(a, b) == FAdd(a, FNeg(b))

\* |a| < 1, for a finite
BelowOne(a) == IsZero(a) \/ a.e <= -4

\* |a| > 1000, for a finite
AboveThousand(a) == ~IsZero(a) /\ (a.e > 0 \/ (a.e = 0 /\ Abs(a.m) > 1000))

\* a + a^2/2! + a^3/3! + ..., for |a| < 1: term is a^(n-1)/(n-1)!
RECURSIVE Expm1Series(_, _, _)
Expm1Series(a, term, n) ==
    IF n > 9 THEN Zero
    ELSE FAdd(FDiv(FMul(term, a), FromInt(n)),
              Expm1Series(a, FDiv(FMul(term, a), FromInt(n)), n + 1))

\* e^a for a finite: e^a = (e^(a/2))^2 until |a| < 1
RECURSIVE Exp(_)
Exp(a) ==
    IF AboveThousand(a) THEN (IF a.m > 0 THEN FInf(1) ELSE Zero)
    ELSE IF BelowOne(a) THEN FAdd(FromInt(1), Expm1Series(a, FromInt(1), 1))
    ELSE LET half == Exp(FDiv(a, FromInt(2))) IN FMul(half, half)

\* np.expm1 under np.errstate(over='ignore'): an overflow is inf, silently
Expm1(a) ==
    IF a.k = "nan" THEN NaN
    ELSE IF a.k = "inf" THEN (IF a.m > 0 THEN FInf(1) ELSE FromInt(-1))
    ELSE IF BelowOne(a) THEN Expm1Series(a, FromInt(1), 1)
    ELSE FSub(Exp(a), FromInt(1))

(***************************************************************************)
(* planck_law(nu_cm, T, A)                                                 *)
(***************************************************************************)
h == Norm(6626, -37)      \* 6.626e-34
c == Norm(2998, 7)        \* 2.998e10
k_B == Norm(1381, -26)    \* 1.381e-23

Cube(a) == FMul(FMul(a, a), a)

NuHz(nu) == FMul(nu, c)

Exponent(nu, T) == FDiv(FMul(h, NuHz(nu)), FMul(k_B, T))

\* line 133 left out
SubstituteMissing(d) == d

\* denominator[denominator == 0] = np.inf, for one element
Substitute(d) == IF IsZero(d) THEN FInf(1) ELSE d

\* I = A * (nu_hz**3) / denominator, for one element
Intensity(nu, A, d) == FDiv(FMul(A, Cube(NuHz(nu))), d)

planck_law(nu_cm, T, A) ==
    [i \in 1..Len(nu_cm) |->
        Intensity(nu_cm[i], A, Substitute(Expm1(Exponent(nu_cm[i], T))))]

\* the inputs tried: frequencies 0, one so small that h * nu_hz underflows,
\* two of the COBE range, and one whose exponent overflows expm1 at T = 1;
\* temperatures around p0, and the 0 and negative ones a solver step can try
NuValues == {Zero, Norm(1000, -323), FromInt(2), FromInt(21), FromInt(1000)}
TValues == {FromInt(1), FromInt(3), Zero, FromInt(-3)}
AValues == {Zero, Norm(1, -15), Norm(-2, -15)}

PlanckInit ==
    /\ k_pc = "call"
    /\ k_nu \in UNION {[1..n -> NuValues] : n \in 1..MaxArr}
    /\ k_T \in TValues
    /\ k_A \in AValues
    /\ k_den = <<>>
    /\ k_out = <<>>

\* lines 127-131: denominator = np.expm1(exponent)
PlanckDenominator ==
    /\ k_pc = "call"
    /\ k_den' = [i \in 1..Len(k_nu) |-> Expm1(Exponent(k_nu[i], k_T))]
    /\ k_pc' = "denominator"
    /\ UNCHANGED <<k_nu, k_T, k_A, k_out>>

\* lines 133-135: the substitution, the division, return I
PlanckReturn ==
    /\ k_pc = "denominator"
    /\ k_out' = planck_law(k_nu, k_T, k_A)
    /\ k_pc' = "returned"
    /\ UNCHANGED <<k_nu, k_T, k_A, k_den>>


(***************************************************************************)
(* simulate_random_walk(n_steps)                                           *)
(***************************************************************************)
\* [dx, dy]: Up, Down, Right, Left
options == << <<0, 1>>, <<0, -1>>, <<1, 0>>, <<-1, 0>> >>

\* np.array(options)[indices]: numpy indexes from 0
Steps(idx) == [t \in 1..Len(idx) |-> options[idx[t] + 1]]

Column(steps, j) == [t \in 1..Len(steps) |-> steps[t][j]]

\* np.cumsum
RECURSIVE CumSum(_)
CumSum(a) ==
    IF a = <<>> THEN <<>>
    ELSE LET front == CumSum(SubSeq(a, 1, Len(a) - 1))
         IN  Append(front,
                    (IF front = <<>> THEN 0 ELSE front[Len(front)]) + a[Len(a)])

\* the origin appended instead of inserted
InsertOriginAtEnd(a) == a \o <<0>>

\* np.insert(a, 0, 0)
InsertOrigin(a) == <<0>> \o a

WalkInit ==
    /\ w_pc = "call"
    /\ n_steps \in 0..MaxSteps
    /\ indices = <<>>
    /\ x = <<>>
    /\ y = <<>>

\* indices = np.random.choice(len(options), size=n_steps)
WalkChoose ==
    /\ w_pc = "call"
    /\ indices' \in [1..n_steps -> 0..(Len(options) - 1)]
    /\ w_pc' = "chosen"
    /\ UNCHANGED <<n_steps, x, y>>

\* lines 33-44: steps, the two cumulative sums, the origin, return x, y
WalkReturn ==
    /\ w_pc = "chosen"
    /\ x' = InsertOrigin(CumSum(Column(Steps(indices), 1)))
    /\ y' = InsertOrigin(CumSum(Column(Steps(indices), 2)))
    /\ w_pc' = "returned"
    /\ UNCHANGED <<n_steps, indices>>

(***************************************************************************)
(* The specifications.  Each runs one script and leaves the state of the   *)
(* others at rest.                                                         *)
(***************************************************************************)
PipeIdle ==
    /\ pc = "idle" /\ runs = 0 /\ response = NoResponse /\ exc = "none"
    /\ df = <<>> /\ path = "none" /\ nu_data = <<>> /\ I_data = <<>>
    /\ sigma_data = <<>> /\ fitCalls = <<>> /\ fitOutcome = NoFit
    /\ popt = <<>> /\ pcov = <<>> /\ printed = <<>> /\ imageWrites = 0
    /\ reqLog = <<>> /\ fallbackLog = {}

PlanckIdle ==
    /\ k_pc = "idle" /\ k_nu = <<>> /\ k_T = Zero /\ k_A = Zero
    /\ k_den = <<>> /\ k_out = <<>>

WalkIdle ==
    /\ w_pc = "idle" /\ n_steps = 0 /\ indices = <<>> /\ x = <<>> /\ y = <<>>

Init == PipeInit /\ PlanckIdle /\ WalkIdle

Next ==
    \/ StartRun /\ UNCHANGED <<planckVars, walkVars>>
    \/ HttpGet /\ UNCHANGED <<planckVars, walkVars>>
    \/ CheckStatus /\ UNCHANGED <<planckVars, walkVars>>
    \/ ParseResponse /\ UNCHANGED <<planckVars, walkVars>>
    \/ Except /\ UNCHANGED <<planckVars, walkVars>>
    \/ Fallback /\ UNCHANGED <<planckVars, walkVars>>
    \/ Extract /\ UNCHANGED <<planckVars, walkVars>>
    \/ CurveFit /\ UNCHANGED <<planckVars, walkVars>>
    \/ Report /\ UNCHANGED <<planckVars, walkVars>>
    \/ Plot /\ UNCHANGED <<planckVars, walkVars>>

Spec == Init /\ [][Next]_vars

InitPlanck == PlanckInit /\ PipeIdle /\ WalkIdle

NextPlanck ==
    \/ PlanckDenominator /\ UNCHANGED <<pipeVars, walkVars>>
    \/ PlanckReturn /\ UNCHANGED <<pipeVars, walkVars>>

SpecPlanck == InitPlanck /\ [][NextPlanck]_vars

InitWalk == WalkInit /\ PipeIdle /\ PlanckIdle

NextWalk ==
    \/ WalkChoose /\ UNCHANGED <<pipeVars, planckVars>>
    \/ WalkReturn /\ UNCHANGED <<pipeVars, planckVars>>

SpecWalk == InitWalk /\ [][NextWalk]_vars


(***************************************************************************)
(* Helpers of the properties.                                              *)
(***************************************************************************)
FetchStages == {"get", "status", "parse", "except", "fallback"}
AfterFetch == {"ingested", "fit", "report", "plot", "done"}

\* the network attempt of this invocation failed: requests.get raised, the
\* status was not 200, or the body holds no row to parse
AttemptFailed ==
    \/ response = NoResponse
    \/ response.status_code # 200
    \/ \A n \in 1..Len(response.text) : response.text[n].kind # "data"

\* positions of the non-comment, non-blank lines of the body, and the i-th
DataIdx == {n \in 1..Len(response.text) : response.text[n].kind = "data"}
NthData(i) ==
    CHOOSE n \in DataIdx : Cardinality({j \in DataIdx : j < n}) = i - 1

\* column j of the i-th row of the body, as a number
RawField(i, j) ==
    <<response.text[NthData(i)].fields[j][1],
      Pow10(response.text[NthData(i)].fields[j][2])>>

C3_ColumnsAndOrder ==
    (pc \in AfterFetch /\ path = "remote") =>
        /\ Len(df) = Cardinality(DataIdx)
        /\ \A i \in 1..Len(df) :
              /\ REq(df[i].nu, RawField(i, 1))
              /\ REq(df[i].I, RawField(i, 2))
              /\ REq(df[i].sigma, RawField(i, 4))
        /\ pc # "ingested" =>
              /\ Len(sigma_data) = Len(df)
              /\ \A i \in 1..Len(df) :
                    /\ REq(nu_data[i], RawField(i, 1))
                    /\ REq(I_data[i], RawField(i, 2))
                    /\ sigma_data[i][1] * RawField(i, 4)[2] * 1000
                          = RawField(i, 4)[1] * sigma_data[i][2]

\* a body with a comment between two different rows, parsed and rescaled
C3_Witness ==
    /\ pc = "fit"
    /\ path = "remote"
    /\ Len(response.text) = 3
    /\ response.text[2].kind = "comment"
    /\ Len(df) = 2
    /\ df[1] # df[2]

(***************************************************************************)
(* C4: when curve_fit raises (the solver did not converge), run_pipeline   *)
(* does not recover: the run is over with the error, no temperature or     *)
(* amplitude was obtained or printed, and no image was written.            *)
(***************************************************************************)
C4_FitErrorTerminal ==
    fitOutcome = "raise" =>
        /\ pc = "error"
        /\ exc = "RuntimeError"
        /\ popt = <<>>
        /\ printed = <<>>
        /\ imageWrites = 0
        /\ ~ENABLED (Report \/ Plot)

C4_Witness ==
    /\ fitOutcome = "raise"
    /\ pc = "error"
    /\ Len(fitCalls) = 1

C6_OneRequestPerCall ==
    /\ Len(reqLog) = runs
    /\ \A i \in 1..Len(reqLog) :
          reqLog[i] = IF i = Len(reqLog) /\ pc = "get" THEN 0 ELSE 1
    /\ pc = "except" => ENABLED Except

\* a second invocation made its own request after the first fell back, and
\* fell back too
C6_Witness ==
    /\ runs = 2
    /\ reqLog = <<1, 1>>
    /\ pc = "ingested"
    /\ path = "fallback"
    /\ response = NoResponse

(***************************************************************************)
(* C7: on the remote and on the fallback path alike, the sigma handed to   *)
(* curve_fit is the uncertainty column of the table divided by 1000, once, *)
(* as absolute standard deviations, and the arrays are rescaled before the *)
(* fit starts.                                                             *)
(***************************************************************************)
C7_SigmaRescaledOnce ==
    /\ pc = "fit" =>
          /\ Len(sigma_data) = Len(df)
          /\ \A i \in 1..Len(df) :
                sigma_data[i][1] * df[i].sigma[2] * 1000
                   = df[i].sigma[1] * sigma_data[i][2]
    /\ \A n \in 1..Len(fitCalls) :
          /\ Len(fitCalls[n].sigma) = Len(df)
          /\ fitCalls[n].absolute_sigma
          /\ \A i \in 1..Len(df) :
                fitCalls[n].sigma[i][1] * df[i].sigma[2] * 1000
                   = df[i].sigma[1] * fitCalls[n].sigma[i][2]

\* a fit on the remote table, in a run that follows one on the backup table
C7_Witness ==
    /\ Len(fitCalls) = 1
    /\ path = "remote"
    /\ fallbackLog # {}
    /\ Len(df) = 2

(***************************************************************************)
(* C8: in every run the stages come in the order ingestion, fit, report:   *)
(* one call of fetch_cobe_data, returned before the one call of curve_fit, *)
(* which is made on that table and has returned before anything is         *)
(* printed or written; the image is written at most once.                  *)
(***************************************************************************)
C8_StageOrder ==
    /\ Len(reqLog) = runs
    /\ Len(fitCalls) <= 1
    /\ Len(printed) <= 1
    /\ imageWrites <= 1
    /\ fitCalls # <<>> =>
          /\ pc \notin FetchStages
          /\ path # "none"
          /\ fitCalls[1].xdata = [i \in 1..Len(df) |-> df[i].nu]
          /\ fitCalls[1].ydata = [i \in 1..Len(df) |-> df[i].I]
    /\ printed # <<>> =>
          /\ Len(fitCalls) = 1
          /\ fitOutcome \in {"converged", "singular"}
          /\ printed[1].T_fit = popt[1]
    /\ imageWrites > 0 => printed # <<>>
    /\ pc = "done" => imageWrites = 1 /\ Len(printed) = 1

C8_Witness ==
    /\ pc = "done"
    /\ runs = 2
    /\ imageWrites = 1
    /\ Len(fitCalls) = 1
    /\ fitOutcome = "converged"

(***************************************************************************)
(* C9: in planck_law, for real (finite) T and A, an element whose          *)
(* denominator expm1(h nu_hz / (k_B T)) is exactly zero comes out as zero  *)
(* intensity, not as nan or inf; an element whose denominator is not zero  *)
(* comes out as A nu_hz^3 / denominator, the substitution leaving it       *)
(* alone.                                                                  *)
(***************************************************************************)
C9_ZeroDenominator ==
    k_pc = "returned" =>
        /\ Len(k_out) = Len(k_nu)
        /\ \A i \in 1..Len(k_nu) :
              /\ IsZero(k_den[i]) => IsZero(k_out[i])
              /\ ~IsZero(k_den[i]) =>
                    k_out[i] = FDiv(FMul(k_A, Cube(FMul(k_nu[i], c))), k_den[i])

\* one element with a zero denominator beside one with a finite one, A # 0
C9_Witness ==
    /\ k_pc = "returned"
    /\ Len(k_nu) = 2
    /\ IsZero(k_den[1])
    /\ k_den[2].k = "fin" /\ ~IsZero(k_den[2])
    /\ ~IsZero(k_A)
    /\ IsZero(k_out[1])
    /\ ~IsZero(k_out[2])

(***************************************************************************)
(* C10: simulate_random_walk(n_steps), n_steps >= 0, returns x and y of    *)
(* length n_steps + 1 starting at (0, 0); each point differs from the one  *)
(* before by the unit move chosen for that step, one of (0,1), (0,-1),     *)
(* (1,0), (-1,0).                                                          *)
(***************************************************************************)
UnitMoves == {<<0, 1>>, <<0, -1>>, <<1, 0>>, <<-1, 0>>}

C10_Trajectory ==
    w_pc = "returned" =>
        /\ Len(x) = n_steps + 1
        /\ Len(y) = n_steps + 1
        /\ x[1] = 0 /\ y[1] = 0
        /\ \A t \in 1..n_steps :
              /\ <<x[t + 1] - x[t], y[t + 1] - y[t]>> \in UnitMoves
              /\ <<x[t + 1] - x[t], y[t + 1] - y[t]>> = options[indices[t] + 1]

C10_Witness ==
    /\ w_pc = "returned"
    /\ n_steps = 3
    /\ indices = <<2, 0, 2>>
    /\ x = <<0, 1, 1, 2>>
    /\ y = <<0, 0, 1, 1>>

====
